---- MODULE Spec2Model ----
(***************************************************************************)
(* A model of the persistence and state-synchronisation core of the        *)
(* kanban / notes application:                                             *)
(*   - src/app/lib/fileSystem.ts  the storage adapter and its validation   *)
(*   - src/app/lib/store.tsx      the task store (KanbanProvider)          *)
(*   - src/unnamed/part_003       the note store (NotesProvider)           *)
(*   - src/app/components/Toast.tsx  the notification messages             *)
(*                                                                         *)
(* JavaScript values are modelled as tagged records, objects as TLA+       *)
(* records of tagged values, so that a value read from a file can have any *)
(* shape and the type guards decide what the stores get to see.            *)
(***************************************************************************)
EXTENDS Integers, Sequences, FiniteSets, TLC

\* ------------------------------------------------------------------------
\* Bounds of the model
\* ------------------------------------------------------------------------

\* Date.now() answers 0..MaxTime.
MaxTime == 1

\* The operations a caller invokes on the stores in one behaviour.
MaxCalls == 2

\* ------------------------------------------------------------------------
\* JavaScript values
\* ------------------------------------------------------------------------

Str(s) == [ty |-> "string", v |-> s]

Bool(b) == [ty |-> "boolean", v |-> b]

Num(n) == [ty |-> "number", v |-> n]

Arr(a) == [ty |-> "array", v |-> a]

Obj(o) == [ty |-> "object", v |-> o]

Undefined == [ty |-> "undefined"]

Null == [ty |-> "null"]

\* typeof x === 'string'
IsString(x) == x.ty = "string"

\* typeof x === 'boolean'
IsBoolean(x) == x.ty = "boolean"

\* Array.isArray(x)
IsArray(x) == x.ty = "array"

\* !x for the values a JSON text can hold: null, false, 0 and "" are falsy
Falsy(x) ==
    \/ x.ty \in {"undefined", "null"}
    \/ x.ty = "boolean" /\ x.v = FALSE
    \/ x.ty = "number" /\ x.v = 0
    \/ x.ty = "string" /\ x.v = ""

\* typeof x === 'object' (arrays and null are objects too)
TypeofObject(x) == x.ty \in {"object", "array", "null"}

\* obj.f : a property read; a missing property, and any property of an
\* array other than an index, reads as undefined
Get(x, f) ==
    IF x.ty = "object" /\ f \in DOMAIN x.v THEN x.v[f] ELSE Undefined

\* the range of a sequence
Range(s) == {s[i] : i \in DOMAIN s}

\* ------------------------------------------------------------------------
\* fileSystem.ts : validation
\* ------------------------------------------------------------------------

TaskStatuses == {"todo", "in-progress", "done"}

isValidTask(task) ==
    IF Falsy(task) \/ ~TypeofObject(task) THEN FALSE
    ELSE /\ IsString(Get(task, "id"))
         /\ IsString(Get(task, "title"))
         /\ IsString(Get(task, "description"))
         /\ IsString(Get(task, "status"))
         /\ Get(task, "status").v \in TaskStatuses
         /\ IsString(Get(task, "createdAt"))
         /\ IsString(Get(task, "updatedAt"))

isValidKanbanData(data) ==
    IF Falsy(data) \/ ~TypeofObject(data) THEN FALSE
    ELSE IF ~IsArray(Get(data, "tasks")) THEN FALSE
    ELSE IF \E i \in DOMAIN Get(data, "tasks").v :
                ~isValidTask(Get(data, "tasks").v[i]) THEN FALSE
    ELSE IF ~IsString(Get(data, "lastModified")) THEN FALSE
    ELSE TRUE

isValidNote(note) ==
    IF Falsy(note) \/ ~TypeofObject(note) THEN FALSE
    ELSE /\ IsString(Get(note, "id"))
         /\ IsString(Get(note, "title"))
         /\ IsString(Get(note, "content"))
         /\ IsBoolean(Get(note, "isFavorite"))
         /\ IsString(Get(note, "createdAt"))
         /\ IsString(Get(note, "updatedAt"))
         /\ (Get(note, "tags").ty = "undefined" \/ IsArray(Get(note, "tags")))

isValidNotesData(data) ==
    IF Falsy(data) \/ ~TypeofObject(data) THEN FALSE
    ELSE IF ~IsArray(Get(data, "notes")) THEN FALSE
    ELSE IF \E i \in DOMAIN Get(data, "notes").v :
                ~isValidNote(Get(data, "notes").v[i]) THEN FALSE
    ELSE IF ~IsString(Get(data, "lastModified")) THEN FALSE
    ELSE TRUE

\* ------------------------------------------------------------------------
\* JSON.stringify and JSON.parse
\* ------------------------------------------------------------------------
\* A JSON text is modelled by its syntax tree.  EmptyText is a file of zero
\* bytes and GarbageText a text that is no JSON; neither parses.

EmptyText == [tok |-> "empty"]

GarbageText == [tok |-> "garbage"]

\* JSON.stringify(value, null, 2): a property whose value is undefined is
\* left out of an object, an undefined array element is written as null.
RECURSIVE Stringify(_)
Stringify(x) ==
    CASE x.ty = "string" -> [tok |-> "string", s |-> x.v]
      [] x.ty = "boolean" -> [tok |-> IF x.v THEN "true" ELSE "false"]
      [] x.ty = "number" -> [tok |-> "number", n |-> x.v]
      [] x.ty = "array" ->
            [tok |-> "array", items |-> [i \in DOMAIN x.v |-> Stringify(x.v[i])]]
      [] x.ty = "object" ->
            [tok |-> "object",
             members |-> [k \in {f \in DOMAIN x.v : x.v[f].ty # "undefined"} |->
                             Stringify(x.v[k])]]
      [] OTHER -> [tok |-> "null"]

\* whether JSON.parse(text) returns (FALSE: it throws a SyntaxError)
Parses(text) == text.tok \notin {"empty", "garbage"}

\* JSON.parse(text) for a text that parses
RECURSIVE Parse(_)
Parse(text) ==
    CASE text.tok = "string" -> Str(text.s)
      [] text.tok = "true" -> Bool(TRUE)
      [] text.tok = "false" -> Bool(FALSE)
      [] text.tok = "number" -> Num(text.n)
      [] text.tok = "array" ->
            Arr([i \in DOMAIN text.items |-> Parse(text.items[i])])
      [] text.tok = "object" ->
            Obj([k \in DOMAIN text.members |-> Parse(text.members[k])])
      [] OTHER -> Null

\* ------------------------------------------------------------------------
\* State
\* ------------------------------------------------------------------------

VARIABLES
    directoryHandle,  \* fileSystem.ts: the module-level handle, or NoHandle
    disk,             \* host: disk[dir][file] is the file's text, or Absent
    now,              \* host: the last answer of Date.now()
    tasks,            \* KanbanProvider: the React state behind useState<Task[]>
    tasksClosure,     \* the `tasks` the operations of the last render closed over
    isLoading,        \* KanbanProvider
    directoryName,    \* KanbanProvider
    toasts,           \* KanbanProvider: the notification queue
    currentView,      \* KanbanProvider: the view the page shows
    notes,            \* NotesProvider: the React state behind useState<Note[]>
    notesClosure,     \* the `notes` the operations of the last render closed over
    notesIsLoading,   \* NotesProvider: isLoading
    inflight,         \* mutation calls suspended in `await saveData(...)`
    fold,             \* history: the calls made so far, folded over the collection
    calls,            \* history: the number of operations invoked so far
    event             \* history: what the last operation step did

vars == <<directoryHandle, disk, now, tasks, tasksClosure, isLoading,
          directoryName, toasts, currentView, notes, notesClosure,
          notesIsLoading, inflight, fold, calls, event>>

NoHandle == "null"

Absent == [tok |-> "absent"]

FILE_NAME == "kanban-data.json"

NOTES_FILE_NAME == "notes-data.json"

\* the directories the picker can return
Dirs == {"dirA", "dirB"}

\* ------------------------------------------------------------------------
\* fileSystem.ts : the storage adapter
\* ------------------------------------------------------------------------
\* An operation of the adapter is an operator from the state it reads and the
\* host's answers to its outcome.  Error messages are English renderings of
\* the source's.

MsgNoDirectory == "save: no directory selected"

MsgNoPermission == "no access permission for the directory"

MsgSaveFailed == "saving the data failed: I/O error"

MsgNotesSaveFailed == "saving the notes data failed: I/O error"

MsgBadFormat == "data file: the format is not correct"

MsgBadStructure == "data file: the structure is not correct"

MsgLoadFailed == "loading the data failed: I/O error"

MsgNotesBadFormat == "notes data file: the format is not correct"

MsgNotesBadStructure == "notes data file: the structure is not correct"

MsgNotesLoadFailed == "loading the notes data failed: I/O error"

MsgNotSupported == "File System Access API is not supported"

MsgPickerFailed == "the directory picker failed"

hasDirectorySelected == directoryHandle # NoHandle

getDirectoryName == IF directoryHandle = NoHandle THEN NoHandle ELSE directoryHandle

\* What the host can answer to a permission check: <<query, request>>, the
\* answers of queryPermission and, after 'prompt', of requestPermission;
\* "throws" is a rejected promise.  The host can revoke or restore the grant
\* between any two calls, so every check draws a fresh answer.
PermissionAnswers ==
    {<<"granted", "">>, <<"denied", "">>, <<"throws", "">>,
     <<"prompt", "granted">>, <<"prompt", "denied">>, <<"prompt", "throws">>}

\* A variant of checkPermission that takes a held handle for a grant.
checkPermissionSkipped(handle, answer) == handle # NoHandle

\* checkPermission() with the module's handle `handle`
checkPermission(handle, answer) ==
    IF handle = NoHandle THEN FALSE
    ELSE IF answer[1] = "throws" THEN FALSE
    ELSE IF answer[1] = "granted" THEN TRUE
    ELSE IF answer[1] = "prompt" THEN
        IF answer[2] = "throws" THEN FALSE ELSE answer[2] = "granted"
    ELSE FALSE

\* What the host can do with the file operations of one save or load.
\* "ok": all succeed; "failOpen": getFileHandle rejects; "failBody":
\* a later operation rejects, after getFileHandle succeeded.
IoAnswers == {"ok", "failOpen", "failBody"}

\* A variant of the body of saveKanbanData / saveNotesData that opens the
\* file, creating it when there is none, before it checks the permission.
saveFileOpenFirst(name, failed, data, answer, io) ==
    LET dir == directoryHandle
        opened == IF disk[dir][name] = Absent
                  THEN [disk EXCEPT ![dir][name] = EmptyText] ELSE disk
    IN IF directoryHandle = NoHandle THEN
           [ok |-> FALSE, message |-> MsgNoDirectory, disk |-> disk]
       ELSE IF io = "failOpen" THEN
           [ok |-> FALSE, message |-> failed, disk |-> disk]
       ELSE IF ~checkPermission(directoryHandle, answer) THEN
           [ok |-> FALSE, message |-> MsgNoPermission, disk |-> opened]
       ELSE IF io = "failBody" THEN
           [ok |-> FALSE, message |-> failed, disk |-> opened]
       ELSE
           [ok |-> TRUE, message |-> "",
            disk |-> [disk EXCEPT ![dir][name] = Stringify(data)]]

\* The body of saveKanbanData / saveNotesData for the file `name`:
\* [ok, message (when it throws), disk after the call].
\* getFileHandle(name, {create: true}) creates an empty file when there is
\* none; the text replaces the file's contents when close() resolves.
saveFile(name, failed, data, answer, io) ==
    LET dir == directoryHandle
    IN IF directoryHandle = NoHandle THEN
           [ok |-> FALSE, message |-> MsgNoDirectory, disk |-> disk]
       ELSE IF ~checkPermission(directoryHandle, answer) THEN
           [ok |-> FALSE, message |-> MsgNoPermission, disk |-> disk]
       ELSE IF io = "failOpen" THEN
           [ok |-> FALSE, message |-> failed, disk |-> disk]
       ELSE IF io = "failBody" THEN
           [ok |-> FALSE, message |-> failed,
            disk |-> IF disk[dir][name] = Absent
                     THEN [disk EXCEPT ![dir][name] = EmptyText] ELSE disk]
       ELSE
           [ok |-> TRUE, message |-> "",
            disk |-> [disk EXCEPT ![dir][name] = Stringify(data)]]

\* A variant of saveKanbanData that writes the task array instead of the
\* document around it.
saveKanbanDataBare(data, answer, io) ==
    saveFile(FILE_NAME, MsgSaveFailed, Get(data, "tasks"), answer, io)

saveKanbanData(data, answer, io) ==
    saveFile(FILE_NAME, MsgSaveFailed, data, answer, io)

\* A variant of saveNotesData that writes to the file of the tasks.
saveNotesDataMisfiled(data, answer, io) ==
    saveFile(FILE_NAME, MsgNotesSaveFailed, data, answer, io)

saveNotesData(data, answer, io) ==
    saveFile(NOTES_FILE_NAME, MsgNotesSaveFailed, data, answer, io)

\* The body of loadKanbanData / loadNotesData for the file `name`, with the
\* module's handle `handle`: [kind: "null" | "data" | "throw", data, message].
\* io "failOpen": getFileHandle rejects with an error other than
\* NotFoundError; "failBody": getFile() or text() rejects.
loadFile(name, badFormat, badStructure, failed, handle, answer, io) ==
    LET text == disk[handle][name]
        valid == IF name = FILE_NAME THEN isValidKanbanData(Parse(text))
                 ELSE isValidNotesData(Parse(text))
        res(k, d, m) == [kind |-> k, data |-> d, message |-> m]
    IN IF handle = NoHandle THEN res("null", Null, "")
       ELSE IF ~checkPermission(handle, answer) THEN res("null", Null, "")
       ELSE IF io = "failOpen" THEN res("throw", Null, failed)
       ELSE IF text = Absent THEN res("null", Null, "")
       ELSE IF io = "failBody" THEN res("throw", Null, failed)
       ELSE IF ~Parses(text) THEN res("throw", Null, badFormat)
       ELSE IF ~valid THEN res("throw", Null, badStructure)
       ELSE res("data", Parse(text), "")

\* A variant of loadKanbanData that answers a file it cannot use with an
\* empty document.
loadKanbanDataLenient(handle, answer, io) ==
    LET res == loadFile(FILE_NAME, MsgBadFormat, MsgBadStructure,
                        MsgLoadFailed, handle, answer, io)
    IN IF res.kind = "throw" /\ res.message # MsgLoadFailed
       THEN [kind |-> "data", message |-> "",
             data |-> Obj([tasks |-> Arr(<<>>), lastModified |-> Str("")])]
       ELSE res

loadKanbanData(handle, answer, io) ==
    loadFile(FILE_NAME, MsgBadFormat, MsgBadStructure, MsgLoadFailed, handle,
             answer, io)

\* A variant of loadNotesData that reads the board's file.
loadNotesDataMisread(handle, answer, io) ==
    loadFile(FILE_NAME, MsgNotesBadFormat, MsgNotesBadStructure,
             MsgNotesLoadFailed, handle, answer, io)

loadNotesData(handle, answer, io) ==
    loadFile(NOTES_FILE_NAME, MsgNotesBadFormat, MsgNotesBadStructure,
             MsgNotesLoadFailed, handle, answer, io)

\* What window.showDirectoryPicker can do: resolve with a directory, reject
\* with an AbortError (the user cancelled), reject with another error; and
\* the environment may not have the API at all.
PickerAnswers ==
    {[kind |-> "resolve", dir |-> d] : d \in Dirs}
        \cup {[kind |-> "abort"], [kind |-> "error"], [kind |-> "unsupported"]}

\* A variant of selectDirectory that drops the held handle before it opens
\* the picker.
selectDirectoryResetting(picker) ==
    CASE picker.kind = "unsupported" ->
            [kind |-> "throw", message |-> MsgNotSupported, handle |-> NoHandle]
      [] picker.kind = "resolve" ->
            [kind |-> "true", message |-> "", handle |-> picker.dir]
      [] picker.kind = "abort" ->
            [kind |-> "false", message |-> "", handle |-> NoHandle]
      [] OTHER ->
            [kind |-> "throw", message |-> MsgPickerFailed, handle |-> NoHandle]

\* A variant of selectDirectory that treats the user's cancellation like any
\* other failure of the picker.
selectDirectoryStrict(picker) ==
    CASE picker.kind = "unsupported" ->
            [kind |-> "throw", message |-> MsgNotSupported, handle |-> directoryHandle]
      [] picker.kind = "resolve" ->
            [kind |-> "true", message |-> "", handle |-> picker.dir]
      [] OTHER ->
            [kind |-> "throw", message |-> MsgPickerFailed, handle |-> directoryHandle]

\* selectDirectory(): [kind: "true" | "false" | "throw", message, handle after]
selectDirectory(picker) ==
    CASE picker.kind = "unsupported" ->
            [kind |-> "throw", message |-> MsgNotSupported, handle |-> directoryHandle]
      [] picker.kind = "resolve" ->
            [kind |-> "true", message |-> "", handle |-> picker.dir]
      [] picker.kind = "abort" ->
            [kind |-> "false", message |-> "", handle |-> directoryHandle]
      [] OTHER ->
            [kind |-> "throw", message |-> MsgPickerFailed, handle |-> directoryHandle]

\* ------------------------------------------------------------------------
\* Toast notifications (store.tsx: showToast / removeToast)
\* ------------------------------------------------------------------------

\* new Date(t).toISOString()
toISOString(t) == "2024-01-01T00:00:00.00" \o ToString(t) \o "Z"

\* the values Math.random().toString(36).substr(2, 9) is drawn from
RandomSuffixes == {"x", "y"}

\* what Date.now() can answer next: the clock does not go back
Clock == now..MaxTime

\* A variant of showToast that loses the message.
showToastDropped(prev, message, type, rnd, t) == prev

\* showToast(message, type) applied to the queue `prev` at time t
showToast(prev, message, type, rnd, t) ==
    Append(prev, [id |-> "toast-" \o ToString(t) \o "-" \o rnd,
                  message |-> message, type |-> type])

\* removeToast(id) applied to the queue `prev`
removeToast(prev, id) == SelectSeq(prev, LAMBDA toast : toast.id # id)

\* ------------------------------------------------------------------------
\* What the stores have in common
\* ------------------------------------------------------------------------

\* { ...entity, ...updates, updatedAt: new Date().toISOString() }
merge(entity, updates, t) ==
    Obj([k \in DOMAIN entity.v \cup DOMAIN updates \cup {"updatedAt"} |->
            IF k = "updatedAt" THEN Str(toISOString(t))
            ELSE IF k \in DOMAIN updates THEN updates[k]
            ELSE entity.v[k]])

\* collection.map((e) => e.id === id ? { ...e, ...updates, updatedAt } : e)
mapUpdate(collection, id, updates, t) ==
    [i \in DOMAIN collection |->
        IF Get(collection[i], "id") = Str(id)
        THEN merge(collection[i], updates, t) ELSE collection[i]]

\* collection.filter((e) => e.id !== id)
filterOut(collection, id) ==
    SelectSeq(collection, LAMBDA e : Get(e, "id") # Str(id))

\* the ids a caller passes: those of the entities it sees, and one of none
MissingId == "non-existent-id"

IdsOf(collection) == {Get(collection[i], "id").v : i \in DOMAIN collection}

\* `event` when the last step was no step of an operation
NoEvent == [kind |-> "none"]

\* `event` after a step of a mutation.  kind "called": the call is suspended
\* in `await saveData(...)`; "completed": the call has returned.
\* before: the collection when the call was made; previous: the collection
\* the call closed over; updated: the collection it computed and set;
\* alone: no other mutation of the store was in flight during the call;
\* seq: the number of operations called before this one.
MutationEvent(kind, call, outcome, message) ==
    [kind |-> kind, store |-> call.store, op |-> call.op, input |-> call.input,
     outcome |-> outcome, message |-> message, before |-> call.before,
     previous |-> call.previous, updated |-> call.updated,
     toastsBefore |-> toasts, alone |-> call.alone, seq |-> call.seq]

\* the calls in flight, once a further mutation of `store` is called
Overlapped(store) ==
    [i \in DOMAIN inflight |->
        IF inflight[i].store = store
        THEN [inflight[i] EXCEPT !.alone = FALSE] ELSE inflight[i]]

\* the calls in flight without the i-th
Settled(i) ==
    SubSeq(inflight, 1, i - 1) \o SubSeq(inflight, i + 1, Len(inflight))

\* ------------------------------------------------------------------------
\* store.tsx : the task store (KanbanProvider)
\* ------------------------------------------------------------------------

ToastTaskAdded == "task added"

ToastTaskAddedUnsaved == "task added (no directory set)"

ToastTaskUpdated == "task updated"

ToastTaskUpdatedUnsaved == "task updated (no directory set)"

ToastTaskDeleted == "task deleted"

ToastTaskDeletedUnsaved == "task deleted (no directory set)"

ToastDataLoaded == "data loaded"

ToastExistingDataLoaded == "existing data loaded"

ToastDirectorySet == "directory set"

\* addTask: the new task; reads[1..3] are the answers of the clock for the
\* id, createdAt and updatedAt
newTask(title, description, rnd, reads) ==
    Obj([id |-> Str("task-" \o ToString(reads[1]) \o "-" \o rnd),
         title |-> Str(title),
         description |-> Str(description),
         status |-> Str("todo"),
         createdAt |-> Str(toISOString(reads[2])),
         updatedAt |-> Str(toISOString(reads[3]))])

\* The part of a task mutation from setTasks(updatedTasks) up to
\* `await saveData(updatedTasks)`, or to its end when no directory is held.
\* `updatedTasks` was computed from the `tasks` of the closure, `folded` is
\* the same operation applied to `fold`, `t` the clock when the call ends.
MutateTasks(op, id, updatedTasks, folded, unsaved, rnd, t) ==
    LET call == [store |-> "kanban", op |-> op, input |-> id, seq |-> calls,
                 previous |-> tasksClosure, updated |-> updatedTasks,
                 before |-> tasks,
                 alone |-> \A i \in DOMAIN inflight : inflight[i].store # "kanban",
                 data |-> Obj([tasks |-> Arr(updatedTasks),
                               lastModified |-> Str(toISOString(t))])]
    IN /\ calls < MaxCalls
       /\ calls' = calls + 1
       /\ tasks' = updatedTasks
       /\ now' = t
       /\ fold' = [fold EXCEPT !.kanban = folded]
       /\ IF hasDirectorySelected
          THEN /\ inflight' = Append(Overlapped("kanban"), call)
               /\ toasts' = toasts
               /\ event' = MutationEvent("called", call, "", "")
          ELSE /\ inflight' = inflight
               /\ toasts' = showToast(toasts, unsaved, "warning", rnd, t)
               /\ event' = MutationEvent("completed", call, "unsaved", "")
       /\ UNCHANGED <<currentView, directoryHandle, disk, tasksClosure,
                      isLoading, directoryName, notes, notesClosure,
                      notesIsLoading>>

addTask(title, description, idRnd, reads, rnd) ==
    MutateTasks("add", "",
                Append(tasksClosure, newTask(title, description, idRnd, reads)),
                Append(fold.kanban, newTask(title, description, idRnd, reads)),
                ToastTaskAddedUnsaved, rnd, reads[3])

updateTask(id, updates, rnd, t) ==
    MutateTasks("update", id,
                mapUpdate(tasksClosure, id, updates, t),
                mapUpdate(fold.kanban, id, updates, t),
                ToastTaskUpdatedUnsaved, rnd, t)

deleteTask(id, rnd, t) ==
    MutateTasks("delete", id,
                filterOut(tasksClosure, id),
                filterOut(fold.kanban, id),
                ToastTaskDeletedUnsaved, rnd, t)

\* A variant of moveTask that sets the status in the state itself, without
\* the generic update: nothing is saved, rolled back or notified.
moveTaskInPlace(taskId, newStatus, rnd, t) ==
    /\ calls < MaxCalls
    /\ calls' = calls + 1
    /\ tasks' = mapUpdate(tasksClosure, taskId, [status |-> Str(newStatus)], t)
    /\ fold' = [fold EXCEPT
                  !.kanban = mapUpdate(fold.kanban, taskId,
                                       [status |-> Str(newStatus)], t)]
    /\ now' = t
    /\ event' = NoEvent
    /\ UNCHANGED <<currentView, directoryHandle, disk, tasksClosure,
                   isLoading, directoryName, toasts, notes, notesClosure,
                   notesIsLoading, inflight>>

moveTask(taskId, newStatus, rnd, t) ==
    updateTask(taskId, [status |-> Str(newStatus)], rnd, t)

\* saveData and the rest of a task mutation, once the awaited
\* saveKanbanData(data) of the call inflight[i] settles
SettleTaskSave(i, answer, io, rnd, t) ==
    LET call == inflight[i]
        res == saveKanbanData(call.data, answer, io)
        done == CASE call.op = "add" -> ToastTaskAdded
                  [] call.op = "update" -> ToastTaskUpdated
                  [] OTHER -> ToastTaskDeleted
    IN /\ call.store = "kanban"
       /\ inflight' = Settled(i)
       /\ disk' = res.disk
       /\ now' = t
       /\ IF res.ok
          THEN /\ toasts' = showToast(toasts, done, "success", rnd, t)
               /\ tasks' = tasks
               /\ event' = MutationEvent("completed", call, "saved", "")
          ELSE /\ toasts' = showToast(toasts, res.message, "error", rnd, t)
               /\ tasks' = call.previous
               /\ event' = MutationEvent("completed", call, "failed", res.message)
       /\ UNCHANGED <<currentView, directoryHandle, tasksClosure, isLoading,
                      directoryName, notes, notesClosure, notesIsLoading,
                      fold, calls>>

\* the host's answer to a permission check is a grant
HostGrants(answer) ==
    answer[1] = "granted" \/ (answer[1] = "prompt" /\ answer[2] = "granted")

\* `event` after a load: text is the file's contents when it was read,
\* granted and io what the host answered to the permission check and did
\* with the file operations
LoadEvent(store, op, input, handle, file, answer, io, res) ==
    [kind |-> "completed", store |-> store, op |-> op, input |-> input,
     handle |-> handle, granted |-> HostGrants(answer), io |-> io,
     text |-> IF handle = NoHandle THEN Absent ELSE disk[handle][file],
     outcome |-> res.kind, message |-> res.message, data |-> res.data,
     toastsBefore |-> toasts, nameBefore |-> directoryName,
     handleBefore |-> directoryHandle]

\* A variant of loadData whose setIsLoading(false) is the last statement of
\* the try block, with no catch and no finally: an error of loadKanbanData
\* rejects the promise and the flag is never cleared.
loadDataNoFinally(answer, io, rnd, t) ==
    LET res == loadKanbanData(directoryHandle, answer, io)
        ev == LoadEvent("kanban", "loadData", "", directoryHandle, FILE_NAME,
                        answer, io, res)
    IN /\ isLoading
       /\ IF ~hasDirectorySelected
          THEN /\ isLoading' = FALSE
               /\ UNCHANGED <<tasks, toasts, directoryName, now, fold>>
               /\ event' = [ev EXCEPT !.outcome = "none"]
          ELSE CASE res.kind = "data" ->
                        /\ isLoading' = FALSE
                        /\ event' = ev
                        /\ tasks' = Get(res.data, "tasks").v
                        /\ fold' = [fold EXCEPT !.kanban = Get(res.data, "tasks").v]
                        /\ toasts' = showToast(toasts, ToastDataLoaded, "success",
                                               rnd, t)
                        /\ now' = t
                        /\ directoryName' = getDirectoryName
                    [] res.kind = "null" ->
                        /\ isLoading' = FALSE
                        /\ event' = ev
                        /\ directoryName' = getDirectoryName
                        /\ UNCHANGED <<tasks, toasts, now, fold>>
                    [] OTHER ->
                        /\ event' = [ev EXCEPT !.kind = "raised"]
                        /\ UNCHANGED <<isLoading, tasks, toasts, directoryName,
                                       now, fold>>
       /\ UNCHANGED <<currentView, directoryHandle, disk, tasksClosure, notes,
                      notesClosure, notesIsLoading, inflight, calls>>

\* the effect of KanbanProvider's mount: loadData()
loadData(answer, io, rnd, t) ==
    LET res == loadKanbanData(directoryHandle, answer, io)
    IN /\ isLoading
       /\ isLoading' = FALSE
       /\ IF ~hasDirectorySelected
          THEN /\ UNCHANGED <<tasks, toasts, directoryName, now, fold>>
               /\ event' = [LoadEvent("kanban", "loadData", "", directoryHandle,
                                      FILE_NAME, answer, io, res)
                               EXCEPT !.outcome = "none"]
          ELSE /\ event' = LoadEvent("kanban", "loadData", "", directoryHandle,
                                     FILE_NAME, answer, io, res)
               /\ CASE res.kind = "data" ->
                        /\ tasks' = Get(res.data, "tasks").v
                        /\ fold' = [fold EXCEPT !.kanban = Get(res.data, "tasks").v]
                        /\ toasts' = showToast(toasts, ToastDataLoaded, "success",
                                               rnd, t)
                        /\ now' = t
                        /\ directoryName' = getDirectoryName
                    [] res.kind = "null" ->
                        /\ directoryName' = getDirectoryName
                        /\ UNCHANGED <<tasks, toasts, now, fold>>
                    [] OTHER ->
                        /\ toasts' = showToast(toasts, res.message, "error", rnd, t)
                        /\ now' = t
                        /\ UNCHANGED <<tasks, directoryName, fold>>
       /\ UNCHANGED <<currentView, directoryHandle, disk, tasksClosure, notes,
                      notesClosure, notesIsLoading, inflight, calls>>

\* A variant of initializeDirectory without the inner try: an error of the
\* read after the selection reaches the outer catch, which returns false.
initializeDirectoryOneCatch(picker, answer, io, rnd, t) ==
    LET sel == selectDirectory(picker)
        res == loadKanbanData(sel.handle, answer, io)
        ev(outcome, message) ==
            [LoadEvent("kanban", "initializeDirectory", picker.kind, sel.handle,
                       FILE_NAME, answer, io, res)
                EXCEPT !.outcome = outcome, !.message = message]
                @@ [sel |-> sel.kind, read |-> res.kind]
    IN /\ calls < MaxCalls
       /\ calls' = calls + 1
       /\ directoryHandle' = sel.handle
       /\ CASE sel.kind = "true" ->
                /\ directoryName' = sel.handle
                /\ now' = t
                /\ CASE res.kind = "data" ->
                         /\ event' = ev("true", res.message)
                         /\ tasks' = Get(res.data, "tasks").v
                         /\ fold' = [fold EXCEPT !.kanban = Get(res.data, "tasks").v]
                         /\ toasts' = showToast(toasts, ToastExistingDataLoaded,
                                                "success", rnd, t)
                     [] res.kind = "null" ->
                         /\ event' = ev("true", res.message)
                         /\ UNCHANGED <<tasks, fold>>
                         /\ toasts' = showToast(toasts, ToastDirectorySet,
                                                "success", rnd, t)
                     [] OTHER ->
                         /\ event' = ev("false", res.message)
                         /\ UNCHANGED <<tasks, fold>>
                         /\ toasts' = showToast(toasts, res.message, "error", rnd, t)
            [] sel.kind = "false" ->
                /\ event' = ev("false", "")
                /\ UNCHANGED <<directoryName, fold, tasks, toasts, now>>
            [] OTHER ->
                /\ event' = ev("false", sel.message)
                /\ toasts' = showToast(toasts, sel.message, "error", rnd, t)
                /\ now' = t
                /\ UNCHANGED <<directoryName, fold, tasks>>
       /\ UNCHANGED <<currentView, disk, tasksClosure, isLoading, notes,
                      notesClosure, notesIsLoading, inflight>>

\* A variant of initializeDirectory that empties the collection when the
\* selected directory gives no document.
initializeDirectoryClearing(picker, answer, io, rnd, t) ==
    LET sel == selectDirectory(picker)
        res == loadKanbanData(sel.handle, answer, io)
        ev(outcome, message) ==
            [LoadEvent("kanban", "initializeDirectory", picker.kind, sel.handle,
                       FILE_NAME, answer, io, res)
                EXCEPT !.outcome = outcome, !.message = message]
                @@ [sel |-> sel.kind, read |-> res.kind]
    IN /\ calls < MaxCalls
       /\ calls' = calls + 1
       /\ directoryHandle' = sel.handle
       /\ CASE sel.kind = "true" ->
                /\ directoryName' = sel.handle
                /\ event' = ev("true", res.message)
                /\ now' = t
                /\ CASE res.kind = "data" ->
                         /\ tasks' = Get(res.data, "tasks").v
                         /\ fold' = [fold EXCEPT !.kanban = Get(res.data, "tasks").v]
                         /\ toasts' = showToast(toasts, ToastExistingDataLoaded,
                                                "success", rnd, t)
                     [] res.kind = "null" ->
                         /\ tasks' = <<>>
                         /\ fold' = [fold EXCEPT !.kanban = <<>>]
                         /\ toasts' = showToast(toasts, ToastDirectorySet,
                                                "success", rnd, t)
                     [] OTHER ->
                         /\ UNCHANGED <<tasks, fold>>
                         /\ toasts' = showToast(toasts, res.message, "error", rnd, t)
            [] sel.kind = "false" ->
                /\ event' = ev("false", "")
                /\ UNCHANGED <<directoryName, fold, tasks, toasts, now>>
            [] OTHER ->
                /\ event' = ev("false", sel.message)
                /\ toasts' = showToast(toasts, sel.message, "error", rnd, t)
                /\ now' = t
                /\ UNCHANGED <<directoryName, fold, tasks>>
       /\ UNCHANGED <<currentView, disk, tasksClosure, isLoading, notes,
                      notesClosure, notesIsLoading, inflight>>

\* initializeDirectory(): selectDirectory(), then loadKanbanData().
\* The event's input is what the picker did, sel what selectDirectory did,
\* outcome the boolean initializeDirectory returns.
initializeDirectory(picker, answer, io, rnd, t) ==
    LET sel == selectDirectory(picker)
        res == loadKanbanData(sel.handle, answer, io)
        ev(outcome, message) ==
            [LoadEvent("kanban", "initializeDirectory", picker.kind, sel.handle,
                       FILE_NAME, answer, io, res)
                EXCEPT !.outcome = outcome, !.message = message]
                @@ [sel |-> sel.kind, read |-> res.kind]
    IN /\ calls < MaxCalls
       /\ calls' = calls + 1
       /\ directoryHandle' = sel.handle
       /\ CASE sel.kind = "true" ->
                /\ directoryName' = sel.handle
                /\ event' = ev("true", res.message)
                /\ now' = t
                /\ CASE res.kind = "data" ->
                         /\ tasks' = Get(res.data, "tasks").v
                         /\ fold' = [fold EXCEPT !.kanban = Get(res.data, "tasks").v]
                         /\ toasts' = showToast(toasts, ToastExistingDataLoaded,
                                                "success", rnd, t)
                     [] res.kind = "null" ->
                         /\ UNCHANGED <<tasks, fold>>
                         /\ toasts' = showToast(toasts, ToastDirectorySet,
                                                "success", rnd, t)
                     [] OTHER ->
                         /\ UNCHANGED <<tasks, fold>>
                         /\ toasts' = showToast(toasts, res.message, "error", rnd, t)
            [] sel.kind = "false" ->
                /\ event' = ev("false", "")
                /\ UNCHANGED <<directoryName, fold, tasks, toasts, now>>
            [] OTHER ->
                /\ event' = ev("false", sel.message)
                /\ toasts' = showToast(toasts, sel.message, "error", rnd, t)
                /\ now' = t
                /\ UNCHANGED <<directoryName, fold, tasks>>
       /\ UNCHANGED <<currentView, disk, tasksClosure, isLoading, notes,
                      notesClosure, notesIsLoading, inflight>>

\* ------------------------------------------------------------------------
\* The note store (NotesProvider)
\* ------------------------------------------------------------------------

ToastNoteAdded == "note added"

ToastNoteAddedUnsaved == "note added (no directory set)"

ToastNoteUpdated == "note updated"

ToastNoteUpdatedUnsaved == "note updated (no directory set)"

ToastNoteDeleted == "note deleted"

ToastNoteDeletedUnsaved == "note deleted (no directory set)"

\* addNote: the new note; `tags` is the optional argument (Undefined when
\* the caller leaves it out), and `tags || []` of an array is the array
newNote(title, content, tags, rnd, reads) ==
    Obj([id |-> Str("note-" \o ToString(reads[1]) \o "-" \o rnd),
         title |-> Str(title),
         content |-> Str(content),
         tags |-> IF Falsy(tags) THEN Arr(<<>>) ELSE tags,
         isFavorite |-> Bool(FALSE),
         createdAt |-> Str(toISOString(reads[2])),
         updatedAt |-> Str(toISOString(reads[3]))])

\* A variant of MutateNotes that reports a change made without a directory
\* like a saved one.
MutateNotesAsSaved(op, id, updatedNotes, folded, unsaved, rnd, t) ==
    LET call == [store |-> "notes", op |-> op, input |-> id, seq |-> calls,
                 previous |-> notesClosure, updated |-> updatedNotes,
                 before |-> notes,
                 alone |-> \A i \in DOMAIN inflight : inflight[i].store # "notes",
                 data |-> Obj([notes |-> Arr(updatedNotes),
                               lastModified |-> Str(toISOString(t))])]
    IN /\ calls < MaxCalls
       /\ calls' = calls + 1
       /\ notes' = updatedNotes
       /\ now' = t
       /\ fold' = [fold EXCEPT !.notes = folded]
       /\ IF hasDirectorySelected
          THEN /\ inflight' = Append(Overlapped("notes"), call)
               /\ toasts' = toasts
               /\ event' = MutationEvent("called", call, "", "")
          ELSE /\ inflight' = inflight
               /\ toasts' = showToast(toasts, unsaved, "success", rnd, t)
               /\ event' = MutationEvent("completed", call, "unsaved", "")
       /\ UNCHANGED <<currentView, directoryHandle, disk, tasks, tasksClosure,
                      isLoading, directoryName, notesClosure, notesIsLoading>>

\* The part of a note mutation from setNotes(updatedNotes) up to
\* `await saveData(updatedNotes)`, or to its end when no directory is held.
MutateNotes(op, id, updatedNotes, folded, unsaved, rnd, t) ==
    LET call == [store |-> "notes", op |-> op, input |-> id, seq |-> calls,
                 previous |-> notesClosure, updated |-> updatedNotes,
                 before |-> notes,
                 alone |-> \A i \in DOMAIN inflight : inflight[i].store # "notes",
                 data |-> Obj([notes |-> Arr(updatedNotes),
                               lastModified |-> Str(toISOString(t))])]
    IN /\ calls < MaxCalls
       /\ calls' = calls + 1
       /\ notes' = updatedNotes
       /\ now' = t
       /\ fold' = [fold EXCEPT !.notes = folded]
       /\ IF hasDirectorySelected
          THEN /\ inflight' = Append(Overlapped("notes"), call)
               /\ toasts' = toasts
               /\ event' = MutationEvent("called", call, "", "")
          ELSE /\ inflight' = inflight
               /\ toasts' = showToast(toasts, unsaved, "warning", rnd, t)
               /\ event' = MutationEvent("completed", call, "unsaved", "")
       /\ UNCHANGED <<currentView, directoryHandle, disk, tasks, tasksClosure,
                      isLoading, directoryName, notesClosure, notesIsLoading>>

addNote(title, content, tags, idRnd, reads, rnd) ==
    MutateNotes("add", "",
                <<newNote(title, content, tags, idRnd, reads)>> \o notesClosure,
                <<newNote(title, content, tags, idRnd, reads)>> \o fold.notes,
                ToastNoteAddedUnsaved, rnd, reads[3])

updateNote(id, updates, rnd, t) ==
    MutateNotes("update", id,
                mapUpdate(notesClosure, id, updates, t),
                mapUpdate(fold.notes, id, updates, t),
                ToastNoteUpdatedUnsaved, rnd, t)

deleteNote(id, rnd, t) ==
    MutateNotes("delete", id,
                filterOut(notesClosure, id),
                filterOut(fold.notes, id),
                ToastNoteDeletedUnsaved, rnd, t)

\* toggleFavorite(id): notes.find over the notes of the closure, then
\* updateNote with the negation of what it found; nothing when none is found
toggleFavorite(id, rnd, t) ==
    IF \E i \in DOMAIN notesClosure : Get(notesClosure[i], "id") = Str(id)
    THEN LET i == CHOOSE j \in DOMAIN notesClosure :
                     /\ Get(notesClosure[j], "id") = Str(id)
                     /\ \A k \in 1..(j - 1) : Get(notesClosure[k], "id") # Str(id)
             note == notesClosure[i]
         IN updateNote(id, [isFavorite |-> Bool(Falsy(Get(note, "isFavorite")))],
                       rnd, t)
    ELSE /\ calls < MaxCalls
         /\ calls' = calls + 1
         /\ event' = [kind |-> "completed", store |-> "notes", op |-> "toggle",
                      input |-> id, outcome |-> "none", message |-> "",
                      before |-> notes, previous |-> notesClosure,
                      updated |-> notes, toastsBefore |-> toasts, alone |-> TRUE]
         /\ UNCHANGED <<currentView, directoryHandle, disk, now, tasks,
                        tasksClosure, isLoading, directoryName, toasts, notes,
                        notesClosure, notesIsLoading, inflight, fold>>

\* saveData and the rest of a note mutation, once the awaited
\* saveNotesData(data) of the call inflight[i] settles
SettleNoteSave(i, answer, io, rnd, t) ==
    LET call == inflight[i]
        res == saveNotesData(call.data, answer, io)
        done == CASE call.op = "add" -> ToastNoteAdded
                  [] call.op = "update" -> ToastNoteUpdated
                  [] OTHER -> ToastNoteDeleted
    IN /\ call.store = "notes"
       /\ inflight' = Settled(i)
       /\ disk' = res.disk
       /\ now' = t
       /\ IF res.ok
          THEN /\ toasts' = showToast(toasts, done, "success", rnd, t)
               /\ notes' = notes
               /\ event' = MutationEvent("completed", call, "saved", "")
          ELSE /\ toasts' = showToast(toasts, res.message, "error", rnd, t)
               /\ notes' = call.previous
               /\ event' = MutationEvent("completed", call, "failed", res.message)
       /\ UNCHANGED <<currentView, directoryHandle, tasks, tasksClosure,
                      isLoading, directoryName, notesClosure, notesIsLoading,
                      fold, calls>>

\* A variant of loadNotes with try/finally and no catch: an error of
\* loadNotesData rejects the promise loadNotes returns.
loadNotesUncaught(answer, io, rnd, t) ==
    LET res == loadNotesData(directoryHandle, answer, io)
        ev == LoadEvent("notes", "loadNotes", "", directoryHandle,
                        NOTES_FILE_NAME, answer, io, res)
    IN /\ notesIsLoading' = FALSE
       /\ IF ~hasDirectorySelected
          THEN /\ UNCHANGED <<notes, toasts, now, fold>>
               /\ event' = [ev EXCEPT !.outcome = "none"]
          ELSE CASE res.kind = "data" ->
                        /\ event' = ev
                        /\ notes' = Get(res.data, "notes").v
                        /\ fold' = [fold EXCEPT !.notes = Get(res.data, "notes").v]
                        /\ UNCHANGED <<toasts, now>>
                    [] res.kind = "null" ->
                        /\ event' = ev
                        /\ UNCHANGED <<notes, toasts, now, fold>>
                    [] OTHER ->
                        /\ event' = [ev EXCEPT !.kind = "raised"]
                        /\ UNCHANGED <<notes, toasts, now, fold>>
       /\ UNCHANGED <<currentView, directoryHandle, disk, tasks, tasksClosure,
                      isLoading, directoryName, notesClosure, inflight,
                      calls>>

\* loadNotes(): the effect of NotesProvider's mount
loadNotes(answer, io, rnd, t) ==
    LET res == loadNotesData(directoryHandle, answer, io)
    IN /\ notesIsLoading' = FALSE
       /\ IF ~hasDirectorySelected
          THEN /\ UNCHANGED <<notes, toasts, now, fold>>
               /\ event' = [LoadEvent("notes", "loadNotes", "", directoryHandle,
                                      NOTES_FILE_NAME, answer, io, res)
                               EXCEPT !.outcome = "none"]
          ELSE /\ event' = LoadEvent("notes", "loadNotes", "", directoryHandle,
                                     NOTES_FILE_NAME, answer, io, res)
               /\ CASE res.kind = "data" ->
                        /\ notes' = Get(res.data, "notes").v
                        /\ fold' = [fold EXCEPT !.notes = Get(res.data, "notes").v]
                        /\ UNCHANGED <<toasts, now>>
                    [] res.kind = "null" ->
                        /\ UNCHANGED <<notes, toasts, now, fold>>
                    [] OTHER ->
                        /\ toasts' = showToast(toasts, res.message, "error", rnd, t)
                        /\ now' = t
                        /\ UNCHANGED <<notes, fold>>
       /\ UNCHANGED <<currentView, directoryHandle, disk, tasks, tasksClosure,
                      isLoading, directoryName, notesClosure, inflight,
                      calls>>

\* ------------------------------------------------------------------------
\* React and the views
\* ------------------------------------------------------------------------

\* React renders the providers: the operations close over the current state
Render ==
    /\ tasksClosure # tasks \/ notesClosure # notes
    /\ tasksClosure' = tasks
    /\ notesClosure' = notes
    /\ event' = NoEvent
    /\ UNCHANGED <<currentView, directoryHandle, disk, now, tasks, isLoading,
                   directoryName, toasts, notes, notesIsLoading, inflight,
                   fold, calls>>

\* page.tsx renders KanbanBoard, and KanbanBoard the ToastContainer, once the
\* task store has loaded, a directory is selected and the view is the board
ContainerMounted ==
    /\ ~isLoading
    /\ directoryName # NoHandle
    /\ currentView = "kanban"

\* the user picks a view in the sidebar, which page.tsx renders once the
\* task store has loaded and a directory is selected
setCurrentView(view) ==
    /\ ~isLoading
    /\ directoryName # NoHandle
    /\ view # currentView
    /\ currentView' = view
    /\ event' = NoEvent
    /\ UNCHANGED <<directoryHandle, disk, now, tasks, tasksClosure, isLoading,
                   directoryName, toasts, notes, notesClosure, notesIsLoading,
                   inflight, fold, calls>>

\* Toast.tsx: the timer of a message fires, or the user closes it; the
\* Toast components live in the ToastContainer
CloseToast(id) ==
    /\ ContainerMounted
    /\ \E i \in DOMAIN toasts : toasts[i].id = id
    /\ toasts' = removeToast(toasts, id)
    /\ event' = NoEvent
    /\ UNCHANGED <<currentView, directoryHandle, disk, now, tasks,
                   tasksClosure, isLoading, directoryName, notes,
                   notesClosure, notesIsLoading, inflight, fold, calls>>

\* ------------------------------------------------------------------------
\* The environment
\* ------------------------------------------------------------------------

\* the arguments the views pass to the operations
Titles == {"a"}

TaskUpdates == {[title |-> Str("b"), description |-> Str("b")]}

MoveTargets == {"done"}

NoteTags == {Undefined}

NoteUpdates ==
    {[title |-> Str("b"), content |-> Str("b"), tags |-> Arr(<<Str("t")>>)]}

\* a task and a note as an earlier session wrote them; the note was written
\* before notes had tags
StoredTask ==
    Obj([id |-> Str("task-old"), title |-> Str("old"), description |-> Str(""),
         status |-> Str("todo"), createdAt |-> Str(toISOString(0)),
         updatedAt |-> Str(toISOString(0))])

StoredNote ==
    Obj([id |-> Str("note-old"), title |-> Str("old"), content |-> Str(""),
         isFavorite |-> Bool(FALSE), createdAt |-> Str(toISOString(0)),
         updatedAt |-> Str(toISOString(0))])

KanbanDocument(collection) ==
    Obj([tasks |-> Arr(collection), lastModified |-> Str(toISOString(0))])

NotesDocument(collection) ==
    Obj([notes |-> Arr(collection), lastModified |-> Str(toISOString(0))])

EmptyDir == [f \in {FILE_NAME, NOTES_FILE_NAME} |-> Absent]

\* a directory with a document of each store
StoredDir ==
    [f \in {FILE_NAME, NOTES_FILE_NAME} |->
        IF f = FILE_NAME THEN Stringify(KanbanDocument(<<StoredTask>>))
        ELSE Stringify(NotesDocument(<<StoredNote>>))]

\* the state when the providers mount
InitCommon ==
    /\ now = 0
    /\ tasks = <<>>
    /\ tasksClosure = <<>>
    /\ isLoading = TRUE
    /\ directoryName = NoHandle
    /\ toasts = <<>>
    /\ currentView = "kanban"
    /\ notes = <<>>
    /\ notesClosure = <<>>
    /\ notesIsLoading = TRUE
    /\ inflight = <<>>
    /\ fold = [kanban |-> <<>>, notes |-> <<>>]
    /\ calls = 0
    /\ event = NoEvent

\* ------------------------------------------------------------------------
\* MutationSpec: the two stores under their mutations
\* ------------------------------------------------------------------------
\* Both stores have loaded, with or without a directory held, and the views
\* call their mutations.  The host answers each permission check and each
\* file operation as it likes; saves settle in any order; React renders at
\* any time.

MutationInit ==
    /\ now = 0
    /\ isLoading = FALSE
    /\ notesIsLoading = FALSE
    /\ toasts = <<>>
    /\ currentView = "kanban"
    /\ inflight = <<>>
    /\ calls = 0
    /\ event = NoEvent
    /\ \/ /\ directoryHandle = NoHandle
          /\ directoryName = NoHandle
          /\ disk = [d \in Dirs |-> EmptyDir]
          /\ tasks = <<>>
          /\ notes = <<>>
       \/ /\ directoryHandle = "dirA"
          /\ directoryName = "dirA"
          /\ \/ /\ disk = [d \in Dirs |-> EmptyDir]
                /\ tasks = <<>>
                /\ notes = <<>>
             \/ /\ disk = [d \in Dirs |-> IF d = "dirA" THEN StoredDir ELSE EmptyDir]
                /\ tasks = <<StoredTask>>
                /\ notes = <<StoredNote>>
    /\ tasksClosure = tasks
    /\ notesClosure = notes
    /\ fold = [kanban |-> tasks, notes |-> notes]

\* the suffix of a notification's id
ToastSuffixes == {"x"}

MutationNext ==
    \/ \E title \in Titles, idRnd \in RandomSuffixes, rnd \in ToastSuffixes,
          t \in Clock :
          addTask(title, "", idRnd, <<t, t, t>>, rnd)
    \/ \E id \in IdsOf(tasksClosure) \cup {MissingId}, updates \in TaskUpdates,
          rnd \in ToastSuffixes, t \in Clock :
          updateTask(id, updates, rnd, t)
    \/ \E id \in IdsOf(tasksClosure) \cup {MissingId}, rnd \in ToastSuffixes,
          t \in Clock :
          deleteTask(id, rnd, t)
    \/ \E id \in IdsOf(tasksClosure) \cup {MissingId}, status \in MoveTargets,
          rnd \in ToastSuffixes, t \in Clock :
          moveTask(id, status, rnd, t)
    \/ \E i \in DOMAIN inflight, answer \in PermissionAnswers, io \in IoAnswers,
          rnd \in ToastSuffixes, t \in Clock :
          SettleTaskSave(i, answer, io, rnd, t)
    \/ \E title \in Titles, tags \in NoteTags, idRnd \in RandomSuffixes,
          rnd \in ToastSuffixes, t \in Clock :
          addNote(title, "", tags, idRnd, <<t, t, t>>, rnd)
    \/ \E id \in IdsOf(notesClosure) \cup {MissingId}, updates \in NoteUpdates,
          rnd \in ToastSuffixes, t \in Clock :
          updateNote(id, updates, rnd, t)
    \/ \E id \in IdsOf(notesClosure) \cup {MissingId}, rnd \in ToastSuffixes,
          t \in Clock :
          deleteNote(id, rnd, t)
    \/ \E id \in IdsOf(notesClosure) \cup {MissingId}, rnd \in ToastSuffixes,
          t \in Clock :
          toggleFavorite(id, rnd, t)
    \/ \E i \in DOMAIN inflight, answer \in PermissionAnswers, io \in IoAnswers,
          rnd \in ToastSuffixes, t \in Clock :
          SettleNoteSave(i, answer, io, rnd, t)
    \/ Render

MutationSpec == MutationInit /\ [][MutationNext]_vars

\* ------------------------------------------------------------------------
\* AdapterSpec: the storage adapter under direct calls
\* ------------------------------------------------------------------------
\* A caller saves and loads documents through the exported functions of
\* fileSystem.ts, over files that an earlier session, or anything else, left
\* in the directory.

\* `event` after a call of a save or load function; text is the file's
\* contents when the call was made, granted whether the host answered the
\* permission check of the call with a grant, prior what the call before did
AdapterEvent(op, store, file, data, answer, io, outcome, message) ==
    [kind |-> "adapter", op |-> op, store |-> store,
     handle |-> directoryHandle, granted |-> HostGrants(answer), io |-> io,
     text |-> IF directoryHandle = NoHandle THEN Absent
              ELSE disk[directoryHandle][file],
     outcome |-> outcome, message |-> message, data |-> data,
     prior |-> IF event.kind = "adapter"
               THEN [op |-> event.op, store |-> event.store,
                     outcome |-> event.outcome, data |-> event.data]
               ELSE [op |-> "none"]]

\* await saveKanbanData(data) / await saveNotesData(data)
CallSave(store, data, answer, io) ==
    LET res == IF store = "kanban" THEN saveKanbanData(data, answer, io)
               ELSE saveNotesData(data, answer, io)
        file == IF store = "kanban" THEN FILE_NAME ELSE NOTES_FILE_NAME
    IN /\ calls < MaxCalls
       /\ calls' = calls + 1
       /\ disk' = res.disk
       /\ event' = AdapterEvent("save", store, file, data, answer, io,
                                IF res.ok THEN "ok" ELSE "throw", res.message)
       /\ UNCHANGED <<currentView, directoryHandle, now, tasks, tasksClosure,
                      isLoading, directoryName, toasts, notes, notesClosure,
                      notesIsLoading, inflight, fold>>

\* await loadKanbanData() / await loadNotesData()
CallLoad(store, answer, io) ==
    LET res == IF store = "kanban" THEN loadKanbanData(directoryHandle, answer, io)
               ELSE loadNotesData(directoryHandle, answer, io)
        file == IF store = "kanban" THEN FILE_NAME ELSE NOTES_FILE_NAME
    IN /\ calls < MaxCalls
       /\ calls' = calls + 1
       /\ event' = AdapterEvent("load", store, file, res.data, answer, io,
                                res.kind, res.message)
       /\ UNCHANGED <<currentView, directoryHandle, disk, now, tasks,
                      tasksClosure, isLoading, directoryName, toasts, notes,
                      notesClosure, notesIsLoading, inflight, fold>>

\* a note with tags, as addNote and updateNote write it
TaggedNote(tags) ==
    Obj([id |-> Str("note-new"), title |-> Str("a"), content |-> Str(""),
         tags |-> tags, isFavorite |-> Bool(TRUE),
         createdAt |-> Str(toISOString(0)), updatedAt |-> Str(toISOString(1))])

\* the documents the caller saves: values of the types KanbanData, NotesData
SavedKanbanData ==
    {KanbanDocument(<<>>), KanbanDocument(<<StoredTask>>),
     KanbanDocument(<<StoredTask, newTask("a", "", "x", <<1, 1, 1>>)>>)}

SavedNotesData ==
    {NotesDocument(<<>>), NotesDocument(<<StoredNote>>),
     NotesDocument(<<TaggedNote(Arr(<<>>)), StoredNote>>),
     NotesDocument(<<TaggedNote(Arr(<<Str("t"), Str("u")>>))>>)}

\* a record with one field more, one field less, one field changed
With(obj, f, x) ==
    Obj([k \in DOMAIN obj.v \cup {f} |-> IF k = f THEN x ELSE obj.v[k]])

Without(obj, f) == Obj([k \in DOMAIN obj.v \ {f} |-> obj.v[k]])

\* what kanban-data.json can hold when the caller comes to it
FoundKanbanTexts ==
    {Absent, EmptyText, GarbageText}
        \cup {Stringify(v) : v \in
                {Null, Arr(<<>>), Str("tasks"),
                 KanbanDocument(<<>>),
                 KanbanDocument(<<StoredTask>>),
                 With(KanbanDocument(<<With(StoredTask, "priority", Num(1))>>),
                      "version", Num(2)),
                 Without(KanbanDocument(<<StoredTask>>), "lastModified"),
                 With(KanbanDocument(<<>>), "lastModified", Num(0)),
                 With(KanbanDocument(<<>>), "tasks", Str("none")),
                 KanbanDocument(<<With(StoredTask, "status", Str("blocked"))>>),
                 KanbanDocument(<<StoredTask, Without(StoredTask, "title")>>),
                 KanbanDocument(<<With(StoredTask, "id", Num(7))>>),
                 KanbanDocument(<<Null>>)}}

\* what notes-data.json can hold when the caller comes to it
FoundNotesTexts ==
    {Absent, EmptyText, GarbageText}
        \cup {Stringify(v) : v \in
                {Null,
                 NotesDocument(<<>>),
                 NotesDocument(<<StoredNote>>),
                 NotesDocument(<<TaggedNote(Arr(<<Str("t")>>)), StoredNote>>),
                 With(NotesDocument(<<With(StoredNote, "color", Str("red"))>>),
                      "version", Num(2)),
                 Without(NotesDocument(<<StoredNote>>), "lastModified"),
                 With(NotesDocument(<<>>), "notes", Null),
                 NotesDocument(<<With(StoredNote, "isFavorite", Str("true"))>>),
                 NotesDocument(<<Without(StoredNote, "content")>>),
                 NotesDocument(<<TaggedNote(Str("t"))>>),
                 NotesDocument(<<TaggedNote(Null)>>),
                 NotesDocument(<<TaggedNote(Arr(<<Num(1)>>))>>)}}

AdapterInit ==
    /\ InitCommon
    /\ directoryHandle \in {NoHandle, "dirA"}
    /\ \E found \in [{FILE_NAME} -> FoundKanbanTexts]
                      \cup [{NOTES_FILE_NAME} -> FoundNotesTexts] :
          disk = [d \in Dirs |->
                    IF d = "dirA"
                    THEN [f \in {FILE_NAME, NOTES_FILE_NAME} |->
                            IF f \in DOMAIN found THEN found[f] ELSE Absent]
                    ELSE EmptyDir]

AdapterNext ==
    \/ \E data \in SavedKanbanData, answer \in PermissionAnswers, io \in IoAnswers :
          CallSave("kanban", data, answer, io)
    \/ \E data \in SavedNotesData, answer \in PermissionAnswers, io \in IoAnswers :
          CallSave("notes", data, answer, io)
    \/ \E store \in {"kanban", "notes"}, answer \in PermissionAnswers,
          io \in IoAnswers :
          CallLoad(store, answer, io)

AdapterSpec == AdapterInit /\ [][AdapterNext]_vars

\* ------------------------------------------------------------------------
\* MountSpec: the initial load of the two stores
\* ------------------------------------------------------------------------
\* The providers mount, with or without a directory held, over files that an
\* earlier session, or anything else, left in the directory; each runs its
\* load once.

MountInit == AdapterInit

MountNext ==
    \/ \E answer \in PermissionAnswers, io \in IoAnswers, rnd \in ToastSuffixes,
          t \in Clock :
          loadData(answer, io, rnd, t)
    \/ \E answer \in PermissionAnswers, io \in IoAnswers, rnd \in ToastSuffixes,
          t \in Clock :
          notesIsLoading /\ loadNotes(answer, io, rnd, t)
    \/ Render
    \/ \E id \in {toasts[i].id : i \in DOMAIN toasts} : CloseToast(id)

MountSpec == MountInit /\ [][MountNext]_vars

\* ------------------------------------------------------------------------
\* DirectorySpec: the task store and the directory picker
\* ------------------------------------------------------------------------
\* KanbanProvider mounts, with or without a directory held from earlier in
\* the session, and the user opens the directory picker.

\* ------------------------------------------------------------------------
\* FaultSpec: every operation of the stores under a failing host
\* ------------------------------------------------------------------------
\* The providers mount and load; the views call the operations of the two
\* stores, the user opens the directory picker; the host refuses permission
\* and fails file operations as it likes.

\* the number of operations the views call
MaxFaultCalls == 1

\* ------------------------------------------------------------------------
\* LoadingSpec: the providers' mount effects run to their end
\* ------------------------------------------------------------------------
\* MountSpec with its scheduling: React runs the effect of each mounted
\* provider, and every promise of the host the effect awaits settles, by
\* resolving or by rejecting.  Nothing is assumed of React's re-renders or of
\* the timers of the notifications.

LoadingInit == MountInit

LoadingNext ==
    \/ \E answer \in PermissionAnswers, io \in IoAnswers, rnd \in ToastSuffixes,
          t \in Clock :
          loadData(answer, io, rnd, t)
    \/ \E answer \in PermissionAnswers, io \in IoAnswers, rnd \in ToastSuffixes,
          t \in Clock :
          notesIsLoading /\ loadNotes(answer, io, rnd, t)
    \/ Render
    \/ \E id \in {toasts[i].id : i \in DOMAIN toasts} : CloseToast(id)

LoadingSpec ==
    /\ LoadingInit
    /\ [][LoadingNext]_vars
    /\ WF_vars(\E answer \in PermissionAnswers, io \in IoAnswers,
                  rnd \in ToastSuffixes, t \in Clock :
                  loadData(answer, io, rnd, t))
    /\ WF_vars(\E answer \in PermissionAnswers, io \in IoAnswers,
                  rnd \in ToastSuffixes, t \in Clock :
                  notesIsLoading /\ loadNotes(answer, io, rnd, t))

\* a directory whose documents are no JSON
CorruptDir == [f \in {FILE_NAME, NOTES_FILE_NAME} |-> GarbageText]

FaultInit ==
    /\ InitCommon
    /\ directoryHandle \in {NoHandle, "dirA"}
    /\ \E a \in {EmptyDir, StoredDir, CorruptDir}, b \in {EmptyDir, CorruptDir} :
          disk = [d \in Dirs |-> IF d = "dirA" THEN a ELSE b]

FaultNext ==
    \/ \E answer \in PermissionAnswers, io \in IoAnswers, rnd \in ToastSuffixes,
          t \in Clock :
          loadData(answer, io, rnd, t)
    \/ \E answer \in PermissionAnswers, io \in IoAnswers, rnd \in ToastSuffixes,
          t \in Clock :
          notesIsLoading /\ loadNotes(answer, io, rnd, t)
    \/ \E picker \in PickerAnswers, answer \in PermissionAnswers, io \in IoAnswers,
          rnd \in ToastSuffixes, t \in Clock :
          calls < MaxFaultCalls /\ initializeDirectory(picker, answer, io, rnd, t)
    \/ \E title \in Titles, idRnd \in RandomSuffixes, rnd \in ToastSuffixes,
          t \in Clock :
          calls < MaxFaultCalls /\ addTask(title, "", idRnd, <<t, t, t>>, rnd)
    \/ \E id \in IdsOf(tasksClosure) \cup {MissingId}, updates \in TaskUpdates,
          rnd \in ToastSuffixes, t \in Clock :
          calls < MaxFaultCalls /\ updateTask(id, updates, rnd, t)
    \/ \E id \in IdsOf(tasksClosure) \cup {MissingId}, rnd \in ToastSuffixes,
          t \in Clock :
          calls < MaxFaultCalls /\ deleteTask(id, rnd, t)
    \/ \E id \in IdsOf(tasksClosure) \cup {MissingId}, status \in MoveTargets,
          rnd \in ToastSuffixes, t \in Clock :
          calls < MaxFaultCalls /\ moveTask(id, status, rnd, t)
    \/ \E i \in DOMAIN inflight, answer \in PermissionAnswers, io \in IoAnswers,
          rnd \in ToastSuffixes, t \in Clock :
          SettleTaskSave(i, answer, io, rnd, t)
    \/ \E title \in Titles, tags \in NoteTags, idRnd \in RandomSuffixes,
          rnd \in ToastSuffixes, t \in Clock :
          calls < MaxFaultCalls /\ addNote(title, "", tags, idRnd, <<t, t, t>>, rnd)
    \/ \E id \in IdsOf(notesClosure) \cup {MissingId}, updates \in NoteUpdates,
          rnd \in ToastSuffixes, t \in Clock :
          calls < MaxFaultCalls /\ updateNote(id, updates, rnd, t)
    \/ \E id \in IdsOf(notesClosure) \cup {MissingId}, rnd \in ToastSuffixes,
          t \in Clock :
          calls < MaxFaultCalls /\ deleteNote(id, rnd, t)
    \/ \E id \in IdsOf(notesClosure) \cup {MissingId}, rnd \in ToastSuffixes,
          t \in Clock :
          calls < MaxFaultCalls /\ toggleFavorite(id, rnd, t)
    \/ \E i \in DOMAIN inflight, answer \in PermissionAnswers, io \in IoAnswers,
          rnd \in ToastSuffixes, t \in Clock :
          SettleNoteSave(i, answer, io, rnd, t)
    \/ Render
    \/ \E id \in {toasts[i].id : i \in DOMAIN toasts} : CloseToast(id)

FaultSpec == FaultInit /\ [][FaultNext]_vars

\* ------------------------------------------------------------------------
\* EntitySpec: the entities of the two stores
\* ------------------------------------------------------------------------
\* Both stores have loaded; the views add, update, move and toggle entities
\* with any arguments the signatures of the operations admit, while the clock
\* runs: an operation that reads the clock several times may see it tick
\* between two reads.

\* what the clock reads of one addTask / addNote return: Date.now() for the
\* id, new Date() for createdAt, new Date() for updatedAt
ClockReads ==
    {reads \in [1..3 -> Clock] : reads[1] <= reads[2] /\ reads[2] <= reads[3]}

\* values of Partial<Task>
PartialTasks ==
    TaskUpdates
        \cup {[status |-> Str("done")],
              [createdAt |-> Str(toISOString(MaxTime))],
              [id |-> Str("task-old")]}

\* values of Partial<Note>
PartialNotes ==
    NoteUpdates
        \cup {[createdAt |-> Str(toISOString(MaxTime))],
              [id |-> Str("note-old")]}

\* the host grants and performs a save, or refuses it
SaveAnswers == {<<"granted", "granted">>, <<"denied", "denied">>}

EntityInit == MutationInit

EntityNext ==
    \/ \E title \in Titles, idRnd \in RandomSuffixes, reads \in ClockReads,
          rnd \in ToastSuffixes :
          addTask(title, "", idRnd, reads, rnd)
    \/ \E id \in IdsOf(tasksClosure), updates \in PartialTasks,
          rnd \in ToastSuffixes, t \in Clock :
          updateTask(id, updates, rnd, t)
    \/ \E id \in IdsOf(tasksClosure), status \in MoveTargets,
          rnd \in ToastSuffixes, t \in Clock :
          moveTask(id, status, rnd, t)
    \/ \E i \in DOMAIN inflight, answer \in SaveAnswers, rnd \in ToastSuffixes,
          t \in Clock :
          SettleTaskSave(i, answer, "ok", rnd, t)
    \/ \E title \in Titles, tags \in NoteTags, idRnd \in RandomSuffixes,
          reads \in ClockReads, rnd \in ToastSuffixes :
          addNote(title, "", tags, idRnd, reads, rnd)
    \/ \E id \in IdsOf(notesClosure), updates \in PartialNotes,
          rnd \in ToastSuffixes, t \in Clock :
          updateNote(id, updates, rnd, t)
    \/ \E id \in IdsOf(notesClosure), rnd \in ToastSuffixes, t \in Clock :
          toggleFavorite(id, rnd, t)
    \/ \E i \in DOMAIN inflight, answer \in SaveAnswers, rnd \in ToastSuffixes,
          t \in Clock :
          SettleNoteSave(i, answer, "ok", rnd, t)
    \/ Render

EntitySpec == EntityInit /\ [][EntityNext]_vars

\* ------------------------------------------------------------------------
\* ToastSpec: the notification queue
\* ------------------------------------------------------------------------
\* Both stores have loaded and a directory is selected; the views add tasks
\* and notes, the user moves between the board and the notes, and the notifications the operations
\* show wait in the queue for their timers.  A timer that stays armed fires:
\* the timers are weakly fair, and so is the host's settling of a save.

\* the ids showToast can give a notification
ToastIds ==
    {"toast-" \o ToString(t) \o "-" \o rnd : t \in 0..MaxTime, rnd \in RandomSuffixes}

Views == {"kanban", "notes"}

\* a directory is selected: the page shows the sidebar and a view
ToastInit == MutationInit /\ directoryName # NoHandle

\* KanbanBoard calls addTask, the notes view addNote
ToastNext ==
    \/ \E title \in Titles, idRnd \in ToastSuffixes, rnd \in RandomSuffixes,
          t \in Clock :
          currentView = "kanban" /\ addTask(title, "", idRnd, <<t, t, t>>, rnd)
    \/ \E i \in DOMAIN inflight, answer \in SaveAnswers, rnd \in RandomSuffixes,
          t \in Clock :
          SettleTaskSave(i, answer, "ok", rnd, t)
    \/ \E title \in Titles, tags \in NoteTags, idRnd \in ToastSuffixes,
          rnd \in RandomSuffixes, t \in Clock :
          currentView = "notes" /\ addNote(title, "", tags, idRnd, <<t, t, t>>, rnd)
    \/ \E i \in DOMAIN inflight, answer \in SaveAnswers, rnd \in RandomSuffixes,
          t \in Clock :
          SettleNoteSave(i, answer, "ok", rnd, t)
    \/ \E view \in Views : setCurrentView(view)
    \/ Render
    \/ \E id \in ToastIds : CloseToast(id)

ToastSpec ==
    /\ ToastInit
    /\ [][ToastNext]_vars
    /\ \A id \in ToastIds : WF_vars(CloseToast(id))
    /\ \A rnd \in RandomSuffixes, t \in 0..MaxTime :
          WF_vars(\E i \in DOMAIN inflight, answer \in SaveAnswers :
                     \/ SettleTaskSave(i, answer, "ok", rnd, t)
                     \/ SettleNoteSave(i, answer, "ok", rnd, t))

\* what kanban-data.json of a directory can hold when the session starts
InitialKanbanTexts ==
    {Absent, GarbageText, Stringify(KanbanDocument(<<StoredTask>>))}

DirectoryInit ==
    /\ InitCommon
    /\ directoryHandle \in {NoHandle, "dirA"}
    /\ \E found \in [Dirs -> InitialKanbanTexts] :
          disk = [d \in Dirs |-> [EmptyDir EXCEPT ![FILE_NAME] = found[d]]]

DirectoryNext ==
    \/ \E answer \in PermissionAnswers, io \in IoAnswers, rnd \in ToastSuffixes,
          t \in Clock :
          loadData(answer, io, rnd, t)
    \/ \E picker \in PickerAnswers, answer \in PermissionAnswers, io \in IoAnswers,
          rnd \in ToastSuffixes, t \in Clock :
          initializeDirectory(picker, answer, io, rnd, t)
    \/ Render
    \/ \E id \in {toasts[i].id : i \in DOMAIN toasts} : CloseToast(id)

DirectorySpec == DirectoryInit /\ [][DirectoryNext]_vars

\* ------------------------------------------------------------------------
\* The claims
\* ------------------------------------------------------------------------

\* the in-memory collection of a store
InMemory(store) == IF store = "kanban" THEN tasks ELSE notes

\* the collection in the document of a store in the held directory
OnDisk(store) ==
    LET text == disk[directoryHandle][IF store = "kanban" THEN FILE_NAME
                                      ELSE NOTES_FILE_NAME]
    IN Get(Parse(text), IF store = "kanban" THEN "tasks" ELSE "notes")

\* the operations a mutation is recorded under (moveTask and toggleFavorite
\* of an existing note are updates)
MutationOps == {"add", "update", "delete"}

\* the last step completed a mutation with `outcome`
Completed(outcome) ==
    /\ event.kind = "completed"
    /\ event.op \in MutationOps
    /\ event.outcome = outcome

\* C1: when the persistence write of a mutation fails, the in-memory
\* collection after the call has completed equals the in-memory collection as
\* it was when the call was made.
C1_RollbackRestoresCollection ==
    Completed("failed") => InMemory(event.store) = event.before

\* C2: a mutation whose write fails emits exactly one notification: none when
\* it is called, and when it completes one of severity 'error' whose text is
\* the message of the error the adapter raised, appended to the queue.
C2_OneErrorNotification ==
    /\ event.kind = "called" => toasts = event.toastsBefore
    /\ Completed("failed") =>
          /\ Len(toasts) = Len(event.toastsBefore) + 1
          /\ SubSeq(toasts, 1, Len(toasts) - 1) = event.toastsBefore
          /\ toasts[Len(toasts)].type = "error"
          /\ toasts[Len(toasts)].message = event.message
          /\ event.message \in
                {MsgNoPermission,
                 IF event.store = "kanban" THEN MsgSaveFailed ELSE MsgNotesSaveFailed}

\* a note mutation has failed on a revoked permission, while an earlier
\* notification was still in the queue
C2_Witness ==
    /\ Completed("failed")
    /\ event.store = "notes"
    /\ event.message = MsgNoPermission
    /\ event.toastsBefore # <<>>

\* C3: with no directory held, the in-memory collection of each store is the
\* fold of the calls made so far over the initial collection, no save was
\* started, nothing was written, and no call was rolled back.
C3_NoDirectoryFold ==
    ~hasDirectorySelected =>
        /\ tasks = fold.kanban
        /\ notes = fold.notes
        /\ inflight = <<>>
        /\ disk = [d \in Dirs |-> EmptyDir]
        /\ ~Completed("failed")

\* C4: when a mutation whose write succeeded completes, the collection in
\* the on-disk document of its store is the collection the mutation put in
\* memory; and it is the in-memory collection at that moment when no other
\* mutation of the store was in flight during the call.
C4_DiskEqualsMemory ==
    Completed("saved") =>
        /\ OnDisk(event.store) = Arr(event.updated)
        /\ event.alone => InMemory(event.store) = event.updated

\* a task mutation that changed the collection has been saved
C4_Witness ==
    /\ Completed("saved")
    /\ event.store = "kanban"
    /\ event.alone
    /\ event.updated # event.before
    /\ event.updated # <<>>

\* C5: an update or a delete whose identifier matches no entity of the
\* collection leaves the in-memory collection as it was when the call was
\* made.
C5_UnknownIdChangesNothing ==
    /\ event.kind \in {"called", "completed"}
    /\ event.op \in {"update", "delete"}
    /\ event.outcome \in {"", "unsaved"}
    /\ event.input \notin IdsOf(event.before)
    => InMemory(event.store) = event.before

\* the last step was a call of a load function of the adapter
Loaded == event.kind = "adapter" /\ event.op = "load"

\* the name of the collection in the document of a store
CollectionOf(store) == IF store = "kanban" THEN "tasks" ELSE "notes"

\* the text is no JSON, or its value fails the type guard of the store
Malformed(store, text) ==
    \/ ~Parses(text)
    \/ store = "kanban" /\ ~isValidKanbanData(Parse(text))
    \/ store = "notes" /\ ~isValidNotesData(Parse(text))

C8_WellTypedTask(x) ==
    /\ x.ty = "object"
    /\ \A f \in {"id", "title", "description", "createdAt", "updatedAt", "status"} :
          f \in DOMAIN x.v /\ x.v[f].ty = "string"
    /\ x.v["status"].v \in {"todo", "in-progress", "done"}

C8_WellTypedNote(x) ==
    /\ x.ty = "object"
    /\ \A f \in {"id", "title", "content", "createdAt", "updatedAt"} :
          f \in DOMAIN x.v /\ x.v[f].ty = "string"
    /\ "isFavorite" \in DOMAIN x.v /\ x.v["isFavorite"].ty = "boolean"
    /\ "tags" \in DOMAIN x.v =>
          /\ x.v["tags"].ty = "array"
          /\ \A i \in DOMAIN x.v["tags"].v : x.v["tags"].v[i].ty = "string"

C8_WellTypedDocument(x, collection) ==
    /\ x.ty = "object"
    /\ "lastModified" \in DOMAIN x.v /\ x.v["lastModified"].ty = "string"
    /\ collection \in DOMAIN x.v /\ x.v[collection].ty = "array"
    /\ \A i \in DOMAIN x.v[collection].v :
          IF collection = "tasks" THEN C8_WellTypedTask(x.v[collection].v[i])
          ELSE C8_WellTypedNote(x.v[collection].v[i])

\* C8: the type guards accept the value parsed from a file exactly when it is
\* a well-typed document: a string lastModified and an array whose every
\* element has every required field of the required type, tags being absent
\* or an array of strings.
C8_GuardsAcceptExactlyWellTyped ==
    \A d \in Dirs :
        /\ Parses(disk[d][FILE_NAME]) /\ disk[d][FILE_NAME] # Absent =>
              (isValidKanbanData(Parse(disk[d][FILE_NAME]))
                  <=> C8_WellTypedDocument(Parse(disk[d][FILE_NAME]), "tasks"))
        /\ Parses(disk[d][NOTES_FILE_NAME]) /\ disk[d][NOTES_FILE_NAME] # Absent =>
              (isValidNotesData(Parse(disk[d][NOTES_FILE_NAME]))
                  <=> C8_WellTypedDocument(Parse(disk[d][NOTES_FILE_NAME]), "notes"))

\* C9 as stated: a load made while a handle is held and the permission check
\* does not return granted raises an error.
C9_DeniedReadRaises ==
    Loaded /\ event.handle # NoHandle /\ ~event.granted =>
        event.outcome = "throw"

\* C9, amended: a load made while a handle is held and the permission check
\* does not return granted returns null: it neither raises nor returns a
\* document, whatever the file holds.
C9_DeniedReadReturnsNull ==
    Loaded /\ event.handle # NoHandle /\ ~event.granted =>
        /\ event.outcome = "null"
        /\ event.data = Null

\* an existing, well-formed notes file has been read without permission
C9_Witness ==
    /\ Loaded
    /\ event.handle # NoHandle
    /\ ~event.granted
    /\ event.store = "notes"
    /\ event.text # Absent
    /\ ~Malformed("notes", event.text)
    /\ event.outcome = "null"

\* C10: when the user cancels the picker selectDirectory returns false, and
\* initializeDirectory returns false, emits no notification and leaves
\* directoryName as it was; when the picker fails otherwise, or is not
\* there, selectDirectory raises.
C10_CancelIsNoError ==
    event.kind = "completed" /\ event.op = "initializeDirectory" =>
        /\ event.input = "abort" =>
              /\ event.sel = "false"
              /\ event.outcome = "false"
              /\ toasts = event.toastsBefore
              /\ directoryName = event.nameBefore
              /\ directoryHandle = event.handleBefore
        /\ event.input \in {"error", "unsupported"} => event.sel = "throw"

\* the user has cancelled the picker while a directory was selected and a
\* notification was in the queue
C10_Witness ==
    /\ event.kind = "completed"
    /\ event.op = "initializeDirectory"
    /\ event.input = "abort"
    /\ event.nameBefore = "dirA"
    /\ event.toastsBefore # <<>>

\* the last step was the initial load of a store
InitialLoad ==
    event.kind = "completed" /\ event.op \in {"loadData", "loadNotes"}

\* the last step appended exactly one notification, of severity `type`
OneMoreToast(type) ==
    /\ Len(toasts) = Len(event.toastsBefore) + 1
    /\ SubSeq(toasts, 1, Len(event.toastsBefore)) = event.toastsBefore
    /\ toasts[Len(toasts)].type = type

\* the last step appended no error notification
NoErrorToast ==
    \/ toasts = event.toastsBefore
    \/ \E type \in {"success", "warning"} : OneMoreToast(type)

\* C11 (as the code has it): after the initial load of a store the collection
\* is empty if no directory is held; if a directory is held and the host
\* grants the permission check and performs the file operations, the
\* collection stays empty without an error notification when the document is
\* absent, stays empty with exactly one error notification when the document
\* is corrupt, and otherwise equals the document's collection verbatim; if
\* the host does not grant the permission check the collection stays empty
\* and nothing is notified, whatever the document is.
C11_InitialLoadLetThrough ==
    InitialLoad =>
        LET store == event.store
        IN /\ event.handle = NoHandle =>
                 InMemory(store) = <<>> /\ toasts = event.toastsBefore
           /\ event.handle # NoHandle /\ event.granted /\ event.io = "ok" =>
                 CASE event.text = Absent ->
                        InMemory(store) = <<>> /\ NoErrorToast
                   [] Malformed(store, event.text) ->
                        InMemory(store) = <<>> /\ OneMoreToast("error")
                   [] OTHER ->
                        InMemory(store)
                            = Get(Parse(event.text), CollectionOf(store)).v
           /\ event.handle # NoHandle /\ ~event.granted =>
                 InMemory(store) = <<>> /\ toasts = event.toastsBefore

\* C11 (as stated): after the initial load of a store the collection is empty
\* if no directory is held; if a directory is held, it stays empty without an
\* error notification when the document is absent, stays empty with exactly
\* one error notification when the document is corrupt, and otherwise equals
\* the document's collection verbatim.
C11_InitialLoad ==
    InitialLoad =>
        LET store == event.store
        IN /\ event.handle = NoHandle => InMemory(store) = <<>>
           /\ event.handle # NoHandle =>
                 CASE event.text = Absent ->
                        InMemory(store) = <<>> /\ NoErrorToast
                   [] Malformed(store, event.text) ->
                        InMemory(store) = <<>> /\ OneMoreToast("error")
                   [] OTHER ->
                        InMemory(store)
                            = Get(Parse(event.text), CollectionOf(store)).v

\* the note store has loaded a document with two notes, one of them tagged,
\* after the task store had found no document
C11_Witness ==
    /\ InitialLoad
    /\ event.store = "notes"
    /\ event.outcome = "data"
    /\ Len(notes) = 2
    /\ ~isLoading

\* the last step was a call of initializeDirectory in which the selection
\* succeeded
Selected ==
    /\ event.kind = "completed"
    /\ event.op = "initializeDirectory"
    /\ event.sel = "true"

\* C12: when the selection succeeds and the read that follows raises,
\* initializeDirectory emits an error notification, still returns true, and
\* the directory stays selected (directoryName is set and
\* hasDirectorySelected() is true); when the read returns a document, the
\* in-memory task collection equals that document's tasks.
C12_SelectedDespiteReadError ==
    Selected =>
        /\ event.read = "throw" =>
              /\ OneMoreToast("error")
              /\ toasts[Len(toasts)].message = event.message
              /\ event.outcome = "true"
              /\ directoryName = event.handle
              /\ directoryName # NoHandle
              /\ hasDirectorySelected
              /\ directoryHandle = event.handle
        /\ event.read = "data" =>
              /\ ~Malformed("kanban", event.text)
              /\ tasks = Get(Parse(event.text), "tasks").v

\* the user has picked a directory with a corrupt document while another
\* directory was selected
C12_Witness ==
    /\ Selected
    /\ event.read = "throw"
    /\ event.text = GarbageText
    /\ event.handleBefore # NoHandle
    /\ event.handleBefore # event.handle

\* the last step ended an operation in which the storage adapter raised
AdapterRaised ==
    \/ Completed("failed")
    \/ InitialLoad /\ event.outcome = "throw"
    \/ /\ event.kind = "completed"
       /\ event.op = "initializeDirectory"
       /\ event.sel = "throw" \/ (event.sel = "true" /\ event.read = "throw")

\* C13: no storage error escapes the store: every operation of the stores
\* (the mutations, initializeDirectory, the initial loads) completes normally
\* whatever error the storage adapter raises, and each error the adapter
\* raised results in an error notification, with the error's message.
C13_NoErrorEscapes ==
    /\ event.kind \in {"none", "called", "completed"}
    /\ AdapterRaised =>
          /\ OneMoreToast("error")
          /\ toasts[Len(toasts)].message = event.message
          /\ event.message # ""

\* the note store's initial load has met a corrupt document
C13_Witness ==
    /\ AdapterRaised
    /\ event.op = "loadNotes"
    /\ event.message = MsgNotesBadFormat

\* the last step was the synchronous part of an add to `store`
Added(store) ==
    /\ event.kind \in {"called", "completed"}
    /\ event.op = "add"
    /\ event.store = store
    /\ event.outcome \in {"", "unsaved"}

\* C14: every task that addTask(title, description) creates has status
\* 'todo', a non-empty id, the given title and description, and createdAt
\* equal to updatedAt.
C14_CreatedTask ==
    Added("kanban") =>
        LET task == event.updated[Len(event.updated)]
        IN /\ Get(task, "status") = Str("todo")
           /\ IsString(Get(task, "id"))
           /\ Get(task, "id") # Str("")
           /\ \E title \in Titles : Get(task, "title") = Str(title)
           /\ Get(task, "description") = Str("")
           /\ Get(task, "createdAt") = Get(task, "updatedAt")

\* the instant an ISO 8601 timestamp of the model denotes
getTime(stamp) == CHOOSE t \in 0..MaxTime : Str(toISOString(t)) = stamp

\* the last step was the synchronous part of updateTask(id, updates), or of
\* moveTask(id, s), with the id of a task of the collection
UpdatedTask ==
    /\ event.kind \in {"called", "completed"}
    /\ event.op = "update"
    /\ event.store = "kanban"
    /\ event.outcome \in {"", "unsaved"}
    /\ event.input \in IdsOf(event.before)

\* C15: moveTask(id, s) and updateTask(id, updates) on an existing task set
\* the requested fields on exactly that task, strictly increase that task's
\* updatedAt, and leave every other task of the collection unchanged and in
\* the same position.
C15_UpdatesExactlyOne ==
    UpdatedTask =>
        /\ Len(tasks) = Len(event.before)
        /\ \A i \in DOMAIN event.before :
              IF Get(event.before[i], "id") = Str(event.input)
              THEN /\ \E updates \in TaskUpdates \cup {[status |-> Str(s)] :
                                                        s \in MoveTargets} :
                         \A k \in DOMAIN tasks[i].v :
                            k # "updatedAt" =>
                               tasks[i].v[k] = IF k \in DOMAIN updates
                                               THEN updates[k]
                                               ELSE event.before[i].v[k]
                   /\ getTime(Get(tasks[i], "updatedAt"))
                         > getTime(Get(event.before[i], "updatedAt"))
              ELSE tasks[i] = event.before[i]

\* the in-memory collections
Collections == {tasks, notes}

\* C16: in every reachable state every task and every note of the in-memory
\* collections has updatedAt >= createdAt, whatever loads, adds, updates
\* (with any partial change), moves and toggles produced the state.
C16_UpdatedNotBeforeCreated ==
    \A collection \in Collections : \A i \in DOMAIN collection :
        getTime(Get(collection[i], "updatedAt"))
            >= getTime(Get(collection[i], "createdAt"))

\* C17: in every reachable state the entities of an in-memory collection
\* have pairwise distinct ids: no add generates an id that is in use and no
\* update makes two entities share an id.
C17_DistinctIds ==
    \A collection \in Collections : \A i, j \in DOMAIN collection :
        i # j => Get(collection[i], "id") # Get(collection[j], "id")

\* the notification with this id is in the queue
Outstanding(id) == \E i \in DOMAIN toasts : toasts[i].id = id

\* C18: the notification queue keeps insertion order and unique ids: a step
\* that shows a notification appends it after all outstanding ones, with an
\* id different from theirs, and a step that removes one removes exactly the
\* message with that id and leaves the others and their order as they were.
C18_QueueKeepsOrderAndIds ==
    [][\/ toasts' = toasts
       \/ /\ Len(toasts') = Len(toasts) + 1
          /\ SubSeq(toasts', 1, Len(toasts)) = toasts
          /\ ~Outstanding(toasts'[Len(toasts')].id)
       \/ \E i \in DOMAIN toasts :
             toasts' = SubSeq(toasts, 1, i - 1)
                          \o SubSeq(toasts, i + 1, Len(toasts))]_vars

\* C19: every notification is eventually removed from the queue, whatever
\* store updates, re-renders and view changes happen in the meantime.
C19_EventuallyRemoved ==
    \A id \in ToastIds : Outstanding(id) ~> ~Outstanding(id)

\* the texts of the succeeded-but-unsaved notifications
UnsavedTexts ==
    {ToastTaskAddedUnsaved, ToastTaskUpdatedUnsaved, ToastTaskDeletedUnsaved,
     ToastNoteAddedUnsaved, ToastNoteUpdatedUnsaved, ToastNoteDeletedUnsaved}

\* the texts of the notifications of a saved mutation
SavedTexts ==
    {ToastTaskAdded, ToastTaskUpdated, ToastTaskDeleted,
     ToastNoteAdded, ToastNoteUpdated, ToastNoteDeleted}

\* C20: a mutation called with no directory held completes at once, emits
\* exactly one notification, of severity 'warning' and with the
\* succeeded-but-unsaved text, and its in-memory change stands; a mutation
\* called with a directory held emits nothing until its write settles, and
\* when the write succeeds exactly one notification, of severity 'success'.
C20_OneNotificationPerMutation ==
    /\ event.kind = "called" /\ event.op \in MutationOps =>
          /\ hasDirectorySelected
          /\ toasts = event.toastsBefore
    /\ Completed("unsaved") =>
          /\ ~hasDirectorySelected
          /\ OneMoreToast("warning")
          /\ toasts[Len(toasts)].message \in UnsavedTexts
          /\ InMemory(event.store) = event.updated
    /\ Completed("saved") =>
          /\ hasDirectorySelected
          /\ OneMoreToast("success")
          /\ toasts[Len(toasts)].message \in SavedTexts

\* a note has been deleted with no directory held, after another mutation
\* had left its notification in the queue
C20_Witness ==
    /\ Completed("unsaved")
    /\ event.store = "notes"
    /\ event.op = "delete"
    /\ event.toastsBefore # <<>>
    /\ Len(event.updated) < Len(event.before)

\* the call of the step is one the permission check lets through: a handle
\* is held and the host grants read-write access
LetThrough == event'.handle # NoHandle /\ event'.granted

\* C21: a call of the storage adapter touches the directory only after a
\* permission check on the held handle that returned granted.  When no
\* handle is held or the check does not return granted, no file is opened,
\* created or written, whatever the file operations would have done: a load
\* returns nothing and a save raises, with the message of the missing
\* directory or of the missing permission.
C21_PermissionBeforeIO ==
    [][event'.kind = "adapter" =>
          /\ disk' # disk => LetThrough
          /\ event'.outcome = "data" => LetThrough
          /\ ~LetThrough =>
                /\ disk' = disk
                /\ event'.op = "load" => event'.outcome = "null"
                /\ event'.op = "save" =>
                      /\ event'.outcome = "throw"
                      /\ event'.message = IF event'.handle = NoHandle
                                          THEN MsgNoDirectory
                                          ELSE MsgNoPermission]_vars

\* a save has been refused for want of permission although the host would
\* have failed the file operations
C21_Witness ==
    /\ event.kind = "adapter"
    /\ event.op = "save"
    /\ event.handle # NoHandle
    /\ ~event.granted
    /\ event.io = "failBody"
    /\ event.text = Absent
    /\ event.message = MsgNoPermission

\* the note with this id that toggleFavorite finds: the first one of the
\* collection its render shows
Found(id) ==
    notesClosure[CHOOSE i \in DOMAIN notesClosure :
                    /\ Get(notesClosure[i], "id") = Str(id)
                    /\ \A j \in 1..(i - 1) : Get(notesClosure[j], "id") # Str(id)]

\* C22: a step is moveTask(id, s) exactly when it is
\* updateTask(id, {status: s}), and for a note the calling render shows a
\* step is toggleFavorite(id) exactly when it is updateNote(id, {isFavorite:
\* the negation of the note's value}), so both take the optimistic apply,
\* the save, the rollback and the notifications of the generic update;
\* toggleFavorite with an id that matches no note changes no collection,
\* starts no save, writes nothing and emits no notification.
C22_MoveAndToggleAreUpdates ==
    [][\A rnd \in ToastSuffixes, t \in Clock :
          /\ \A id \in IdsOf(tasksClosure) \cup {MissingId}, s \in MoveTargets :
                moveTask(id, s, rnd, t)
                    <=> updateTask(id, [status |-> Str(s)], rnd, t)
          /\ \A id \in IdsOf(notesClosure) :
                toggleFavorite(id, rnd, t)
                    <=> updateNote(id,
                                   [isFavorite |->
                                       Bool(Get(Found(id), "isFavorite")
                                                = Bool(FALSE))],
                                   rnd, t)
          /\ toggleFavorite(MissingId, rnd, t) =>
                /\ UNCHANGED <<tasks, notes, disk, toasts, inflight>>]_vars

\* a favourite note has been toggled with a directory held, and the save of
\* the update is in flight
C22_Witness ==
    /\ event.kind = "called"
    /\ event.store = "notes"
    /\ event.op = "update"
    /\ \E i \in DOMAIN event.previous :
          /\ Get(event.previous[i], "id") = Str(event.input)
          /\ Get(event.previous[i], "isFavorite") = Bool(TRUE)
          /\ Get(notes[i], "isFavorite") = Bool(FALSE)
          /\ Get(notes[i], "title") = Get(event.previous[i], "title")

\* Two mutations of one store have overlapped (the second was called before
\* the write of the first had settled) and the last step settled the later
\* of their two writes.  The notification of the write that settled first
\* is toasts[1], the call of the write that settled last is in `event`.
TwoSettled ==
    /\ event.kind = "completed"
    /\ event.op \in MutationOps
    /\ event.outcome \in {"saved", "failed"}
    /\ ~event.alone
    /\ calls = 2
    /\ inflight = <<>>
    /\ Len(toasts) = 2

\* the fold of the calls made so far over the initial collection of `store`
Fold(store) == IF store = "kanban" THEN fold.kanban ELSE fold.notes

\* C23: if two mutations of one store overlap and both writes succeed, then
\* once both have settled the in-memory collection and the collection of the
\* on-disk document are equal, both being the collection of the write that
\* settled last.
C23_LastSettledWins ==
    /\ TwoSettled
    /\ event.outcome = "saved"
    /\ toasts[1].type = "success"
    => /\ OnDisk(event.store) = Arr(event.updated)
       /\ InMemory(event.store) = event.updated

\* C24: no lost update: a mutation called before the write of an earlier
\* mutation of its store has settled is computed from a collection that
\* holds the earlier mutation's change, so that when both writes succeed the
\* in-memory collection is the fold of the two operations in call order.
C24_NoLostUpdate ==
    /\ TwoSettled
    /\ event.outcome = "saved"
    /\ toasts[1].type = "success"
    => /\ event.seq = 1 => event.previous = event.before
       /\ InMemory(event.store) = Fold(event.store)

\* C25: if the write of mutation A fails while the write of an overlapping
\* mutation B of the same store, called after A, succeeds, then after both
\* have settled the in-memory collection equals the collection of the
\* on-disk document: A's rollback has not removed B's change.
C25_RollbackKeepsLaterChange ==
    /\ TwoSettled
    /\ \/ event.seq = 0 /\ event.outcome = "failed" /\ toasts[1].type = "success"
       \/ event.seq = 1 /\ event.outcome = "saved" /\ toasts[1].type = "error"
    => OnDisk(event.store) = Arr(InMemory(event.store))

\* the document of a store in the held directory
FileOf(store) ==
    disk[directoryHandle][IF store = "kanban" THEN FILE_NAME
                          ELSE NOTES_FILE_NAME]

\* the store's load has finished
HasLoaded(store) == IF store = "kanban" THEN ~isLoading ELSE ~notesIsLoading

\* C26: once a store has finished loading, a successful write of a mutation
\* replaces a document that exists only when the contents of that document
\* are what the store held in memory when the mutation was called: the
\* document is well-formed and its collection is the in-memory collection of
\* that moment.
C26_WriteKeepsUnloadedDocument ==
    [][/\ event'.kind = "completed"
       /\ event'.op \in MutationOps
       /\ event'.outcome = "saved"
       /\ HasLoaded(event'.store)
       /\ FileOf(event'.store) # Absent
       => /\ ~Malformed(event'.store, FileOf(event'.store))
          /\ OnDisk(event'.store) = Arr(event'.before)]_vars

\* C27: the loading flag of each store ends false: after the providers have
\* mounted, isLoading of the task store and isLoading of the note store
\* become false and stay false, whatever the initial read gives (a document,
\* nothing, an error) and whether or not a directory is held.
C27_LoadingEnds ==
    /\ <>[](~isLoading)
    /\ <>[](~notesIsLoading)

\* the task store's initial read has raised with a directory held, the note
\* store's has returned nothing, and both flags are false
C27_Witness ==
    /\ ~isLoading
    /\ ~notesIsLoading
    /\ directoryHandle # NoHandle
    /\ \E i \in DOMAIN toasts :
          /\ toasts[i].type = "error"
          /\ toasts[i].message \in {MsgBadFormat, MsgBadStructure, MsgLoadFailed}
    /\ event.kind = "completed"
    /\ event.op = "loadNotes"
    /\ event.outcome = "null"

\* the last step was the call of a mutation: the store has set the
\* collection the call computed
JustCalled ==
    /\ event.kind \in {"called", "completed"}
    /\ event.op \in MutationOps
    /\ event.kind = "called" \/ event.outcome = "unsaved"

\* the ids of a collection, in its order
IdSeq(collection) == [i \in DOMAIN collection |-> Get(collection[i], "id")]

\* C28: addNote places the new note before all notes of the collection and
\* addTask the new task after all tasks of the collection, the entities that
\* were in the collection keeping value and order; delete leaves the other
\* entities as they were and in their order, update leaves every entity at
\* its position.
C28_OrderPreserved ==
    JustCalled =>
        LET old == event.before
            new == InMemory(event.store)
        IN CASE event.op = "add" /\ event.store = "kanban" ->
                     /\ Len(new) = Len(old) + 1
                     /\ SubSeq(new, 1, Len(old)) = old
               [] event.op = "add" /\ event.store = "notes" ->
                     /\ Len(new) = Len(old) + 1
                     /\ Tail(new) = old
               [] event.op = "delete" ->
                     new = filterOut(old, event.input)
               [] OTHER ->
                     IdSeq(new) = IdSeq(old)

\* the step is a call of selectDirectory in which the picker resolved with
\* the directory that is held after it
PickerResolved ==
    /\ event'.kind = "completed"
    /\ event'.op = "initializeDirectory"
    /\ event'.input = "resolve"
    /\ event'.sel = "true"
    /\ directoryHandle' = event'.handle

\* C29: a held directory handle is never cleared, and the handle changes
\* only in a step in which a picker call resolves with a directory: a
\* selectDirectory that is cancelled or raises leaves the handle as it was,
\* so hasDirectorySelected() stays true and getDirectoryName() keeps its
\* value.
C29_HandleOnlyReplacedByPick ==
    [][/\ directoryHandle # NoHandle => directoryHandle' # NoHandle
       /\ directoryHandle' # directoryHandle => PickerResolved]_vars

\* selectDirectory has raised while a directory was held, and that directory
\* is still held
C29_Witness ==
    /\ event.kind = "completed"
    /\ event.op = "initializeDirectory"
    /\ event.sel = "throw"
    /\ event.handleBefore # NoHandle
    /\ hasDirectorySelected
    /\ getDirectoryName = event.handleBefore

\* the step is an initializeDirectory whose selection succeeded and whose
\* read found no task document in the selected directory
SelectedEmptyDirectory ==
    /\ event'.kind = "completed"
    /\ event'.op = "initializeDirectory"
    /\ event'.sel = "true"
    /\ event'.text = Absent
    /\ event'.read = "null"

\* C30: when the selection succeeds and the selected directory has no task
\* document, initializeDirectory leaves the in-memory task collection as it
\* was, writes no file, adds one success notification to the queue and
\* returns true.
C30_AbsentDocumentKeepsTasks ==
    [][SelectedEmptyDirectory =>
          /\ tasks' = tasks
          /\ disk' = disk
          /\ Len(toasts') = Len(toasts) + 1
          /\ SubSeq(toasts', 1, Len(toasts)) = toasts
          /\ toasts'[Len(toasts')].type = "success"
          /\ event'.outcome = "true"]_vars

\* a directory without a task document has been selected while the store
\* held the tasks of another directory
C30_Witness ==
    /\ event.kind = "completed"
    /\ event.op = "initializeDirectory"
    /\ event.sel = "true"
    /\ event.text = Absent
    /\ event.read = "null"
    /\ event.granted
    /\ event.handleBefore # NoHandle
    /\ event.handleBefore # event.handle
    /\ tasks # <<>>
    /\ toasts[Len(toasts)].message = ToastDirectorySet

====
